---- MODULE Spec2Model ----
(***************************************************************************)
(* node-check-account: Main reads a list of account records, runs          *)
(* checkAccount on each of them in turn (loginFlow, then the store-items   *)
(* request) and writes output.csv.  Two variants of the script are         *)
(* modelled: src/index.js ("index") and the older src/unnamed/part_000     *)
(* ("part_000"); the variable `variant` says which one is running.         *)
(***************************************************************************)
EXTENDS Integers, Sequences, FiniteSets

VARIABLES
    variant,    \* which source file is running
    config,     \* config.json after loadConfig: whether config.position is set
    file,       \* the rows of the input CSV
    accounts,   \* the account records Main iterates over
    idx,        \* position of Main's for-loop in accounts (1-based)
    pc,         \* where Main / checkAccount / loginFlow stands
    step,       \* index in LoginSteps of loginFlow's current network step
    clients,    \* owners (account positions) of the pogobuf clients created so far
    inflight,   \* account positions whose client has a library call in flight
    issued,     \* network steps the current account's client has issued
    player,     \* getPlayer response received for the current account
    login,      \* how loginFlow ended for the current account
    store,      \* how the store-items request ended for the current account
    err,        \* message of the error Main rejected with
    saveCalls,  \* number of fs.writeFile('output.csv') calls
    output,     \* content of output.csv (sequence of rows), <<>> when not written
    log         \* what the final then/catch handlers logged

vars == <<variant, config, file, accounts, idx, pc, step, clients, inflight,
          issued, player, login, store, err, saveCalls, output, log>>

MaxAccounts == 2

Variants == {"index", "part_000"}

Usernames == {"alice", "bob"}

----------------------------------------------------------------------------
(* JavaScript values held by the fields of an account record.              *)

Undefined == [tag |-> "undefined", b |-> FALSE, s |-> ""]
Bool(x)   == [tag |-> "boolean", b |-> x, s |-> ""]
Str(x)    == [tag |-> "string", b |-> FALSE, s |-> x]

IsBool(v) == v.tag = "boolean"

\* `${v}` in a template literal
Stringify(v) ==
    CASE v.tag = "undefined" -> "undefined"
      [] v.tag = "boolean"   -> IF v.b THEN "true" ELSE "false"
      [] OTHER               -> v.s

----------------------------------------------------------------------------
(* Input.                                                                  *)

\* A row of the input CSV.  banned / warn are columns the file may carry
\* besides type, username and password (Undefined when the column is absent).
Row(u, extra) ==
    [type |-> "ptc", username |-> u, password |-> "pw",
     banned |-> IF extra THEN Str("1") ELSE Undefined,
     warn   |-> IF extra THEN Str("0") ELSE Undefined]

Files ==
    UNION {
        { [i \in 1..n |-> Row(us[i], extra)] : us \in [1..n -> Usernames] }
        : n \in 0..MaxAccounts, extra \in BOOLEAN }

\* neat-csv keeps every column of the file as a property of the record; the
\* older loader builds {type, username, password} only.
loadAccount(v, f) ==
    [i \in 1..Len(f) |->
        [type |-> f[i].type, username |-> Str(f[i].username), password |-> f[i].password,
         banned |-> IF v = "index" THEN f[i].banned ELSE Undefined,
         warn   |-> IF v = "index" THEN f[i].warn ELSE Undefined,
         store  |-> Undefined,
         iap    |-> Undefined]]

----------------------------------------------------------------------------
(* loginFlow.                                                              *)

LoginSteps ==
    <<"init", "emptyBatch", "getPlayer", "downloadRemoteConfigVersion",
      "getPlayerProfile", "levelUpRewards">>

StoreStep == "getStoreItems"

\* Error messages, as sequences of words.
StatusCode3   == <<"Status", "code", "3", "received", "from", "RPC">>
StatusCode102 == <<"Status", "code", "102", "received", "from", "RPC">>
TypeErrorMsg  == <<"Cannot", "read", "property", "of", "undefined">>
LoadErrorMsg  == <<"Input", "file", "does", "not", "exist">>
WriteErrorMsg == <<"EACCES", "output.csv">>

NetworkErrors == {StatusCode3, StatusCode102}

BanPattern == <<"Status", "code", "3">>

\* String.prototype.indexOf: 0-based position of the first occurrence, or -1
IndexOf(msg, pat) ==
    LET hits == { i \in 0..(Len(msg) - Len(pat)) :
                    SubSeq(msg, i + 1, i + Len(pat)) = pat }
    IN  IF hits = {} THEN -1
        ELSE CHOOSE i \in hits : \A j \in hits : i <= j

PlayerResponses == [banned : BOOLEAN, warn : BOOLEAN]

NoPlayer == [received |-> FALSE, banned |-> FALSE, warn |-> FALSE]

ItemLists ==
    { <<>>, <<[is_iap |-> FALSE]>>, <<[is_iap |-> FALSE], [is_iap |-> TRUE]>> }

\* _.some(response.items, item => item.is_iap)
SomeIap(items) == \E k \in 1..Len(items) : items[k].is_iap

NoLogin == [outcome |-> "pending", message |-> <<>>]
NoStore == [outcome |-> "pending", items |-> <<>>, dumped |-> FALSE]

----------------------------------------------------------------------------

Init ==
    /\ variant \in Variants
    /\ config \in [position : BOOLEAN]
    /\ file \in Files
    /\ accounts = <<>>
    /\ idx = 1
    /\ pc = "start"
    /\ step = 1
    /\ clients = <<>>
    /\ inflight = {}
    /\ issued = <<>>
    /\ player = NoPlayer
    /\ login = NoLogin
    /\ store = NoStore
    /\ err = <<>>
    /\ saveCalls = 0
    /\ output = <<>>
    /\ log = <<>>

\* Main: loadConfig and loadAccount succeed
LoadOk ==
    /\ pc = "start"
    /\ accounts' = loadAccount(variant, file)
    /\ pc' = "loop"
    /\ UNCHANGED <<variant, config, file, idx, step, clients, inflight, issued,
                   player, login, store, err, saveCalls, output, log>>

\* Main: config.json or the input file is missing
LoadFails ==
    /\ pc = "start"
    /\ pc' = "rejected"
    /\ err' = LoadErrorMsg
    /\ UNCHANGED <<variant, config, file, accounts, idx, step, clients, inflight,
                   issued, player, login, store, saveCalls, output, log>>

\* Faulty variant: the test is written "> 0", missing a message that starts with the pattern
HandleLoginError_Positive(accs, i, m) ==
    IF IndexOf(m, BanPattern) > 0
    THEN [accs EXCEPT ![i].banned = Bool(TRUE)]
    ELSE accs

\* The catch block of checkAccount (index.js); the older variant has none.
HandleLoginError(accs, i, m) ==
    IF IndexOf(m, BanPattern) >= 0
    THEN [accs EXCEPT ![i].banned = Bool(TRUE)]
    ELSE accs

\* Faulty variant: the catch block rethrows, so no variant absorbs the failure
LoginFlowFailed_Rethrow(accs, m) ==
    /\ login' = [outcome |-> "failed", message |-> m]
    /\ accounts' = accs
    /\ pc' = "rejected"
    /\ err' = m

\* Faulty variant: the older variant absorbs the failure too
LoginFlowFailed_Absorb(accs, m) ==
    /\ login' = [outcome |-> "failed", message |-> m]
    /\ accounts' = HandleLoginError(accs, idx, m)
    /\ pc' = "store"
    /\ UNCHANGED err

\* loginFlow rejects with message m while checkAccount is awaiting it.
LoginFlowFailed(accs, m) ==
    /\ login' = [outcome |-> "failed", message |-> m]
    /\ IF variant = "index"
       THEN /\ accounts' = HandleLoginError(accs, idx, m)
            /\ pc' = "store"
            /\ UNCHANGED err
       ELSE /\ accounts' = accs
            /\ pc' = "rejected"
            /\ err' = m

\* Faulty variant: Main starts the next checkAccount without awaiting the previous one
CheckAccountStart_NoAwait ==
    /\ pc \in {"loop", "await", "store_await"}
    /\ Len(clients) < Len(accounts)
    /\ idx' = Len(clients) + 1
    /\ clients' = Append(clients, Len(clients) + 1)
    /\ issued' = <<>>
    /\ player' = NoPlayer
    /\ store' = NoStore
    /\ step' = 1
    /\ pc' = "login"
    /\ login' = NoLogin
    /\ UNCHANGED <<variant, config, file, accounts, err, inflight, saveCalls, output, log>>

\* Main's loop starts checkAccount for the account at idx: a new client is
\* created and loginFlow sets the position.
CheckAccountStart ==
    /\ pc = "loop"
    /\ idx <= Len(accounts)
    /\ clients' = Append(clients, idx)
    /\ issued' = <<>>
    /\ player' = NoPlayer
    /\ store' = NoStore
    /\ step' = 1
    /\ IF config.position
       THEN /\ pc' = "login"
            /\ login' = NoLogin
            /\ UNCHANGED <<accounts, err>>
       ELSE LoginFlowFailed(accounts, TypeErrorMsg)
    /\ UNCHANGED <<variant, config, file, idx, inflight, saveCalls, output, log>>

\* loginFlow issues its next network step
IssueLoginStep ==
    /\ pc = "login"
    /\ issued' = Append(issued, LoginSteps[step])
    /\ inflight' = inflight \cup {idx}
    /\ pc' = "await"
    /\ UNCHANGED <<variant, config, file, accounts, idx, step, clients, player,
                   login, store, err, saveCalls, output, log>>

\* Faulty variant: the records share one object, so the write reaches every account
SetPlayerFlags_Shared(accs, i, r) ==
    [j \in 1..Len(accs) |->
        [accs[j] EXCEPT !.warn = Bool(r.warn), !.banned = Bool(r.banned)]]

\* account.warn = response.warn; account.banned = response.banned
SetPlayerFlags(accs, i, r) ==
    [accs EXCEPT ![i].warn = Bool(r.warn), ![i].banned = Bool(r.banned)]

\* The step in flight resolves
LoginStepSucceeds ==
    /\ pc = "await"
    /\ inflight' = inflight \ {idx}
    /\ \/ /\ step \in {1, 2, 5}
          /\ step' = step + 1
          /\ pc' = "login"
          /\ UNCHANGED <<accounts, player, login, err>>
       \/ /\ step = 3
          /\ \E r \in PlayerResponses :
                /\ accounts' = SetPlayerFlags(accounts, idx, r)
                /\ player' = [received |-> TRUE, banned |-> r.banned, warn |-> r.warn]
          /\ step' = step + 1
          /\ pc' = "login"
          /\ UNCHANGED <<login, err>>
       \/ /\ step = 4
          /\ \E wellFormed \in BOOLEAN :
                IF wellFormed
                THEN /\ step' = step + 1
                     /\ pc' = "login"
                     /\ UNCHANGED <<accounts, login, err>>
                ELSE /\ LoginFlowFailed(accounts, TypeErrorMsg)
                     /\ UNCHANGED step
          /\ UNCHANGED player
       \/ /\ step = 6
          /\ login' = [outcome |-> "ok", message |-> <<>>]
          /\ pc' = "store"
          /\ UNCHANGED <<accounts, step, player, err>>
    /\ UNCHANGED <<variant, config, file, idx, clients, issued, store,
                   saveCalls, output, log>>

\* Faulty variant: a failed step is issued again
LoginStepFails_Retry ==
    /\ pc = "await"
    /\ inflight' = inflight \ {idx}
    /\ pc' = "login"
    /\ UNCHANGED <<variant, config, file, accounts, idx, step, clients, issued, player,
                   login, store, err, saveCalls, output, log>>

\* The step in flight rejects
LoginStepFails ==
    /\ pc = "await"
    /\ inflight' = inflight \ {idx}
    /\ \E m \in NetworkErrors : LoginFlowFailed(accounts, m)
    /\ UNCHANGED <<variant, config, file, idx, step, clients, issued, player, store,
                   saveCalls, output, log>>

\* checkAccount issues the store-items request
IssueStoreItems ==
    /\ pc = "store"
    /\ issued' = Append(issued, StoreStep)
    /\ inflight' = inflight \cup {idx}
    /\ pc' = "store_await"
    /\ UNCHANGED <<variant, config, file, accounts, idx, step, clients, player,
                   login, store, err, saveCalls, output, log>>

\* The store-items request resolves.  The older variant first dumps the
\* response to store.json, inside the same try block.
StoreItemsSucceeds ==
    /\ pc = "store_await"
    /\ inflight' = inflight \ {idx}
    /\ \E items \in ItemLists, dumpOk \in BOOLEAN :
          /\ variant = "index" => dumpOk
          /\ store' = [outcome |-> "ok", items |-> items, dumped |-> dumpOk]
          /\ accounts' =
                IF dumpOk
                THEN [accounts EXCEPT ![idx].store = Bool(TRUE),
                                      ![idx].iap = Bool(SomeIap(items))]
                ELSE [accounts EXCEPT ![idx].store = Bool(FALSE),
                                      ![idx].iap = Bool(FALSE)]
    /\ pc' = "checked"
    /\ UNCHANGED <<variant, config, file, idx, step, clients, issued, player, login,
                   err, saveCalls, output, log>>

\* The store-items request rejects
StoreItemsFails ==
    /\ pc = "store_await"
    /\ inflight' = inflight \ {idx}
    /\ store' = [outcome |-> "failed", items |-> <<>>, dumped |-> FALSE]
    /\ accounts' = [accounts EXCEPT ![idx].store = Bool(FALSE),
                                    ![idx].iap = Bool(FALSE)]
    /\ pc' = "checked"
    /\ UNCHANGED <<variant, config, file, idx, step, clients, issued, player, login,
                   err, saveCalls, output, log>>

\* checkAccount logs the flags and returns: its client and its locals are
\* gone, and Main's loop moves on
CheckAccountReturn ==
    /\ pc = "checked"
    /\ idx' = idx + 1
    /\ pc' = "loop"
    /\ step' = 1
    /\ issued' = <<>>
    /\ player' = NoPlayer
    /\ login' = NoLogin
    /\ store' = NoStore
    /\ UNCHANGED <<variant, config, file, accounts, clients, inflight,
                   err, saveCalls, output, log>>

Header == <<"username", "banned", "warn", "store", "iap">>

FormatRow(a) ==
    <<Stringify(a.username), Stringify(a.banned), Stringify(a.warn),
      Stringify(a.store), Stringify(a.iap)>>

\* Faulty variant: accounts without store access are left out of the report
Content_SkipNoStore(accs) ==
    LET kept == SelectSeq(accs, LAMBDA a : a.store = Bool(TRUE))
    IN  <<Header>> \o [i \in 1..Len(kept) |-> FormatRow(kept[i])]

\* the content saveToFile builds
Content(accs) == <<Header>> \o [i \in 1..Len(accs) |-> FormatRow(accs[i])]

\* Faulty variant: the file is saved inside the loop, before the last account is checked
SaveToFile_InLoop ==
    /\ pc = "loop"
    /\ idx >= Len(accounts)
    /\ saveCalls' = saveCalls + 1
    /\ pc' = "saving"
    /\ UNCHANGED <<variant, config, file, accounts, idx, step, clients, inflight,
                   issued, player, login, store, err, output, log>>

\* Main's loop is over: saveToFile builds the content and calls fs.writeFile
SaveToFile ==
    /\ pc = "loop"
    /\ idx > Len(accounts)
    /\ saveCalls' = saveCalls + 1
    /\ pc' = "saving"
    /\ UNCHANGED <<variant, config, file, accounts, idx, step, clients, inflight,
                   issued, player, login, store, err, output, log>>

WriteFileOk ==
    /\ pc = "saving"
    /\ output' = Content(accounts)
    /\ pc' = "resolved"
    /\ UNCHANGED <<variant, config, file, accounts, idx, step, clients, inflight,
                   issued, player, login, store, err, saveCalls, log>>

WriteFileFails ==
    /\ pc = "saving"
    /\ err' = WriteErrorMsg
    /\ pc' = "rejected"
    /\ UNCHANGED <<variant, config, file, accounts, idx, step, clients, inflight,
                   issued, player, login, store, saveCalls, output, log>>

\* Main().then(() => logger.info('Done'))
LogDone ==
    /\ pc = "resolved"
    /\ log' = Append(log, <<"Done">>)
    /\ pc' = "done"
    /\ UNCHANGED <<variant, config, file, accounts, idx, step, clients, inflight,
                   issued, player, login, store, err, saveCalls, output>>

\* .catch(e => logger.error(e))
LogError ==
    /\ pc = "rejected"
    /\ log' = Append(log, err)
    /\ pc' = "error"
    /\ UNCHANGED <<variant, config, file, accounts, idx, step, clients, inflight,
                   issued, player, login, store, err, saveCalls, output>>

Next ==
    \/ LoadOk
    \/ LoadFails
    \/ CheckAccountStart
    \/ IssueLoginStep
    \/ LoginStepSucceeds
    \/ LoginStepFails
    \/ IssueStoreItems
    \/ StoreItemsSucceeds
    \/ StoreItemsFails
    \/ CheckAccountReturn
    \/ SaveToFile
    \/ WriteFileOk
    \/ WriteFileFails
    \/ LogDone
    \/ LogError

Spec == Init /\ [][Next]_vars

----------------------------------------------------------------------------
(* Properties.                                                             *)

InputAccounts == loadAccount(variant, file)

InCheck == pc \in {"login", "await", "store", "store_await", "checked"}

IsPrefix(a, b) == Len(a) <= Len(b) /\ a = SubSeq(b, 1, Len(a))

LoginIssued == SelectSeq(issued, LAMBDA x : x # StoreStep)
StoreIssued == SelectSeq(issued, LAMBDA x : x = StoreStep)

Logged(m) == \E k \in 1..Len(log) : log[k] = m

\* the message contains 'Status code 3'
ContainsBan(m) ==
    \E k \in 1..(Len(m) - 2) : m[k] = "Status" /\ m[k + 1] = "code" /\ m[k + 2] = "3"

(* C1: the accounts are checked one at a time, in input order: the clients *)
(* are created for positions 1, 2, ... in that order, the client for       *)
(* position i+1 is not created before checkAccount for position i has      *)
(* returned, and at most one account (the current one) has a library call  *)
(* in flight.                                                              *)
C1_OneAtATime ==
    /\ Cardinality(inflight) <= 1
    /\ inflight \subseteq {idx}
    /\ clients = [k \in 1..Len(clients) |-> k]
    /\ Len(clients) \in {idx - 1, idx}
    /\ InCheck => Len(clients) = idx

C1_Witness == idx = 2 /\ inflight = {2} /\ Len(clients) = 2

(* C2: output.csv is written at most once, never before checkAccount has   *)
(* returned for every record of the input, and 'Done' is logged only after *)
(* the write has completed.                                                *)
C2_SaveOnceAfterAll ==
    /\ saveCalls <= 1
    /\ saveCalls = 1 =>
          /\ idx = Len(file) + 1
          /\ Len(clients) = Len(file)
          /\ pc \in {"saving", "resolved", "rejected", "done", "error"}
    /\ output # <<>> => saveCalls = 1
    /\ Logged(<<"Done">>) => (output # <<>> /\ pc = "done")

C2_Witness == pc = "done" /\ Len(file) = 2 /\ Logged(<<"Done">>)

GoodContent(c) ==
    /\ Len(c) = Len(file) + 1
    /\ c[1] = Header
    /\ \A i \in 1..Len(file) : Len(c[i + 1]) = 5 /\ c[i + 1][1] = file[i].username

(* C3: the content saveToFile writes is the header line followed by one    *)
(* row per record of the input, in input order, each row starting with the *)
(* account's username.                                                     *)
C3_OneRowPerAccount ==
    /\ pc = "saving" => GoodContent(Content(accounts))
    /\ output # <<>> => GoodContent(output)

C3_Witness ==
    /\ output # <<>>
    /\ Len(file) = 2
    /\ file[1].username = file[2].username
    /\ output[2][2] = "undefined"
    /\ output[3][4] = "true"

Checked(i) == i < idx \/ (i = idx /\ pc = "checked")

(* C4: once checkAccount has returned for a record, its four flags banned, *)
(* warn, store and iap are booleans, and every row of output.csv holds     *)
(* 'true' or 'false' in its four flag columns.                             *)
C4_FlagsBoolean ==
    /\ \A i \in 1..Len(accounts) :
          Checked(i) =>
             /\ IsBool(accounts[i].banned)
             /\ IsBool(accounts[i].warn)
             /\ IsBool(accounts[i].store)
             /\ IsBool(accounts[i].iap)
    /\ \A i \in 2..Len(output) :
          \A k \in 2..5 : output[i][k] \in {"true", "false"}

(* C5: the login steps issued for an account are a prefix of LoginSteps,   *)
(* step k+1 is issued only after steps 1..k have succeeded, none is issued *)
(* after loginFlow has ended, and in index.js the store-items request is   *)
(* issued exactly once, after loginFlow has ended.                         *)
C5_LoginStepsPrefix ==
    /\ IsPrefix(LoginIssued, LoginSteps)
    /\ issued = LoginIssued \o StoreIssued
    /\ Len(LoginIssued) <= step
    /\ Len(StoreIssued) <= 1
    /\ Len(StoreIssued) = 1 => login.outcome # "pending"
    /\ (login.outcome = "ok") => LoginIssued = LoginSteps
    /\ (variant = "index" /\ pc \in {"store_await", "checked"}) => Len(StoreIssued) = 1

C5_Witness ==
    /\ variant = "index"
    /\ pc = "checked"
    /\ login.outcome = "failed"
    /\ issued = <<"init", "emptyBatch", "getPlayer", StoreStep>>

(* C6: in index.js a loginFlow failure never aborts the run: checkAccount  *)
(* goes on to the store-items request and returns, Main rejects only when  *)
(* loading or writing fails, and the run ends only after every account has *)
(* been checked and output.csv has been saved.                             *)
C6_LoginFailureAbsorbed ==
    variant = "index" =>
       /\ login.outcome = "failed" => pc \in {"store", "store_await", "checked"}
       /\ (login.outcome = "failed" /\ pc = "checked") => Len(StoreIssued) = 1
       /\ pc \in {"rejected", "error"} => err \in {LoadErrorMsg, WriteErrorMsg}
       /\ (pc \in {"resolved", "done"} \/ err = WriteErrorMsg) =>
             (saveCalls = 1 /\ Len(clients) = Len(file))

C6_Witness ==
    /\ variant = "index"
    /\ pc = "done"
    /\ Len(accounts) = 2
    /\ accounts[1].banned = Bool(TRUE)
    /\ accounts[1].warn = Undefined
    /\ IsBool(accounts[2].warn)
    /\ Len(output) = 3

\* banned / warn of the current account when loginFlow stopped
AtLoginEnd(field) ==
    IF player.received THEN Bool(player[field]) ELSE InputAccounts[idx][field]

(* C7: in index.js, after a failed loginFlow, banned is true when the      *)
(* message contains 'Status code 3' and otherwise, like warn in both       *)
(* cases, keeps the value it had at the failure (the getPlayer response's  *)
(* if received, else the input's); after a successful loginFlow banned and *)
(* warn are the getPlayer response's; nothing else of the record changes.  *)
C7_LoginFailureFlags ==
    (variant = "index" /\ pc \in {"store", "store_await", "checked"}) =>
       /\ login.outcome = "failed" =>
             /\ accounts[idx].banned =
                   IF ContainsBan(login.message) THEN Bool(TRUE) ELSE AtLoginEnd("banned")
             /\ accounts[idx].warn = AtLoginEnd("warn")
       /\ login.outcome = "ok" =>
             /\ player.received
             /\ accounts[idx].banned = Bool(player.banned)
             /\ accounts[idx].warn = Bool(player.warn)
       /\ pc # "checked" =>
             /\ accounts[idx].store = InputAccounts[idx].store
             /\ accounts[idx].iap = InputAccounts[idx].iap
       /\ accounts[idx].username = InputAccounts[idx].username

C7_Witness ==
    /\ variant = "index"
    /\ pc = "store"
    /\ login.message = StatusCode3
    /\ player.received /\ ~player.banned /\ player.warn
    /\ accounts[idx].banned = Bool(TRUE)

C7_WitnessKept ==
    /\ variant = "index"
    /\ pc = "store"
    /\ login.message = StatusCode102
    /\ ~player.received
    /\ accounts[idx].banned = Str("1")

(* C8: in the older variant a loginFlow failure ends the run: the          *)
(* store-items request is not issued for that account, no later account is *)
(* checked, output.csv is not written and the error is logged, not 'Done'. *)
C8_OldVariantAborts ==
    (variant = "part_000" /\ login.outcome = "failed") =>
       /\ StoreIssued = <<>>
       /\ pc \in {"rejected", "error"}
       /\ Len(clients) = idx
       /\ saveCalls = 0
       /\ output = <<>>
       /\ ~Logged(<<"Done">>)
       /\ pc = "error" => log = <<login.message>>

C8_Witness ==
    /\ variant = "part_000"
    /\ pc = "error"
    /\ Len(file) = 2
    /\ idx = 1
    /\ login.message \in NetworkErrors
    /\ Len(LoginIssued) = 4

(* C9: after checkAccount has finished, store is true exactly when the     *)
(* store-items request succeeded, and iap is true exactly when it          *)
(* succeeded and some returned item is marked is_iap (so iap implies       *)
(* store).                                                                 *)
C9_StoreIapFlags ==
    pc = "checked" =>
       /\ accounts[idx].store = Bool(store.outcome = "ok")
       /\ accounts[idx].iap = Bool(store.outcome = "ok" /\ SomeIap(store.items))
       /\ accounts[idx].iap = Bool(TRUE) => accounts[idx].store = Bool(TRUE)

(* C10: a step of checkAccount for position idx leaves every other record  *)
(* unchanged and never changes username, type or password of any record;   *)
(* each checkAccount creates a client of its own.                          *)
C10_Frame ==
    [][ pc # "start" =>
          /\ Len(accounts') = Len(accounts)
          /\ \A j \in 1..Len(accounts) :
                /\ j # idx => accounts'[j] = accounts[j]
                /\ accounts'[j].username = accounts[j].username
                /\ accounts'[j].type = accounts[j].type
                /\ accounts'[j].password = accounts[j].password
          /\ clients' # clients =>
                /\ clients' = Append(clients, idx)
                /\ \A k \in 1..Len(clients) : clients[k] # idx ]_vars

C10_Witness ==
    /\ idx = 2
    /\ pc = "checked"
    /\ accounts[1].store = Bool(TRUE)
    /\ accounts[1].banned = Bool(FALSE)
    /\ accounts[2].store = Bool(FALSE)
    /\ accounts[2].banned = Bool(TRUE)

====
